---- MODULE Spec2Model ----
(***************************************************************************)
(* Model of the connection-pool Node of the riak client (src/node.go).     *)
(*                                                                         *)
(* One Node is shared by a Start caller, a Stop caller, Execute callers,   *)
(* the idle-expiration goroutine started by Start and the health-check     *)
(* goroutines started by Execute.  A step of the model is the code a       *)
(* goroutine runs between two points where it can block: the acquisition   *)
(* of connMtx or stateMtx, a channel operation, a network operation.       *)
(*                                                                         *)
(* connMtx is a sync.Mutex: it has no owner-reentrancy, so a goroutine     *)
(* that locks it twice blocks for ever.  stateMtx is a sync.RWMutex: the   *)
(* write lock is taken and released inside setState, so a setState is one  *)
(* step whose guard is that no read lock is held; the read lock Execute    *)
(* keeps across its pool interaction is the set readers.                   *)
(***************************************************************************)
EXTENDS Integers, Sequences, FiniteSets, TLC

\* ---------------------------------------------------------------- bounds
\* MinConnections and MaxConnections of NodeOptions are drawn from 1..MaxCfg
MaxCfg == 2

\* ------------------------------------------------------------- constants
NODE_ERROR == 0
NODE_CREATED == 1
NODE_RUNNING == 2
NODE_HEALTH_CHECKING == 3
NODE_SHUTTING_DOWN == 4
NODE_SHUTDOWN == 5

\* uint16 arithmetic of currentNumConnections
U16 == 65536

\* the nil *connection
NilConn == 0

\* the goroutines
Starter == "start"
Stopper == "stop"
Expirer == "expire"
Execs == {"e1", "e2"}
HCs == {"h1", "h2"}
Procs == {Starter, Stopper, Expirer} \cup Execs \cup HCs

\* values of a returned error
NoErr == "nil"
IllegalState == "IllegalState"
ConnErr == "ConnErr"
CmdErr == "CmdErr"
CloseErr == "CloseErr"

\* connMtx unlocked
Free == "free"

VARIABLES
    minConnections,         \* Node.minConnections
    maxConnections,         \* Node.maxConnections
    state,                  \* Node.state
    available,              \* Node.available
    currentNumConnections,  \* Node.currentNumConnections
    connMtx,                \* Node.connMtx: Free or the goroutine holding it
    readers,                \* goroutines holding stateMtx.RLock
    expireTicker,           \* Node.expireTicker: "nil", "running", "stopped"
    pc,                     \* position of every goroutine
    conn,                   \* the local variable conn of every goroutine
    startI,                 \* Start's loop variable i
    seen,                   \* the state an Execute call's stateCheck saw
    cmdErr,                 \* Execute's err after conn.execute (line 216)
    ret,                    \* what the call that returned in the last step returned
    stopPre,                \* history: the Stop call in progress passed line 167
                            \* in HEALTH_CHECKING with no idle and no held connection
    hcEmpty                 \* history: the healthCheck goroutines that ran line 310
                            \* with no idle connection and a live count of zero,
                            \* emptied when a Stop call passes line 167

vars == <<minConnections, maxConnections, state, available,
          currentNumConnections, connMtx, readers, expireTicker, pc, conn,
          startI, seen, cmdErr, ret, stopPre, hcEmpty>>

cfg == <<minConnections, maxConnections>>

\* the history variables: they record what a call saw when it began and are
\* read by no action
hist == <<stopPre, hcEmpty>>

\* the return of caller p with the results executed and err (Start and Stop
\* return only err: executed is FALSE for them)
Result(p, executed, err) == [proc |-> p, executed |-> executed, err |-> err]

\* no call returned in the last step
NoResult == [proc |-> "none", executed |-> FALSE, err |-> "none"]

Init ==
    /\ minConnections \in 1..MaxCfg
    /\ maxConnections \in 1..MaxCfg
    /\ state = NODE_CREATED
    /\ available = <<>>
    /\ currentNumConnections = 0
    /\ connMtx = Free
    /\ readers = {}
    /\ expireTicker = "nil"
    /\ pc = [p \in Procs |-> IF p \in HCs \cup {Expirer} THEN "none" ELSE "idle"]
    /\ conn = [p \in Procs |-> NilConn]
    /\ startI = 0
    /\ seen = [e \in Execs |-> NODE_CREATED]
    /\ cmdErr = [e \in Execs |-> NoErr]
    /\ ret = NoResult
    /\ stopPre = FALSE
    /\ hcEmpty = {}

\* ------------------------------------------------------------- helpers

\* the allow-lists handed to stateCheck
StartAllowed == {NODE_CREATED}
StopAllowed_Mut == {NODE_CREATED, NODE_RUNNING, NODE_HEALTH_CHECKING}
StopAllowed == {NODE_CREATED, NODE_HEALTH_CHECKING}
ExecuteAllowed == {NODE_RUNNING, NODE_HEALTH_CHECKING}

\* stateCheck: runs under stateMtx.RLock, which it releases before returning
stateCheck(allowed) == IF state \in allowed THEN NoErr ELSE IllegalState

\* stateMtx.Lock() succeeds: no read lock is held
CanWriteState_Mut == TRUE
CanWriteState == readers = {}

\* the connections some goroutine or the pool refers to
InUse == {available[k] : k \in 1..Len(available)} \cup {conn[p] : p \in Procs}

\* newConnection: a connection object distinct from every one in use
NewConn == CHOOSE c \in 1..(Cardinality(InUse) + 1) : c \notin InUse

\* returnConnectionToPool, once connMtx is held: <<available, count>> after it
ReturnToPool_Mut(c) ==
    IF state < NODE_SHUTTING_DOWN
    THEN <<<<c>> \o available, currentNumConnections>>
    ELSE <<available, (currentNumConnections + U16 - 1) % U16>>
ReturnToPool(c) ==
    IF state < NODE_SHUTTING_DOWN
    THEN <<Append(available, c), currentNumConnections>>
    ELSE <<available, (currentNumConnections + U16 - 1) % U16>>

\* line 187 of Execute: the check made under the read lock
Dispatchable_Mut(s) == s \in {NODE_RUNNING, NODE_HEALTH_CHECKING}
Dispatchable(s) == s = NODE_RUNNING

\* line 193 of Execute: may a connection be created
BelowMax_Mut(n) == n <= maxConnections
BelowMax(n) == n < maxConnections

\* no Stop call has passed its stateCheck (line 167) so far: none is under
\* way and none has ended the goroutine of expireIdleConnections
NoStop == pc[Stopper] = "idle" /\ pc[Expirer] # "done"

\* an unrecovered panic ends the program
Crash == pc' = [p \in Procs |-> "crashed"]

\* ------------------------------------------------------- createNewConnection

\* lines 341-344, after a successful connect: lock connMtx, count the
\* connection, unlock.  What follows is the caller's code up to its next
\* blocking point.  Start and Execute call it holding connMtx, so for them
\* the guard is false as long as they hold it.
CreateLock(p) ==
    /\ pc[p] = "create_lock"
    /\ connMtx = Free
    /\ currentNumConnections' = (currentNumConnections + 1) % U16
    /\ IF p \in HCs
       THEN /\ conn' = [conn EXCEPT ![p] = NewConn]
            /\ pc' = [pc EXCEPT ![p] = "H_ret"]
            /\ UNCHANGED <<available, startI>>
       ELSE IF p = Starter
       THEN \* Start, line 144: returnConnectionToPool(conn, false); i++
            /\ available' = IF state < NODE_SHUTTING_DOWN
                            THEN Append(available, NewConn) ELSE available
            /\ startI' = startI + 1
            /\ pc' = [pc EXCEPT ![p] = "S_loop"]
            /\ UNCHANGED conn
       ELSE \* Execute, line 205: Unlock of the mutex that line 342's
            \* deferred Unlock has already released is a fatal error
            /\ Crash
            /\ UNCHANGED <<available, startI, conn>>
    /\ ret' = NoResult
    /\ UNCHANGED <<cfg, state, connMtx, readers, expireTicker, seen, cmdErr>>
    /\ UNCHANGED hist

\* ---------------------------------------------------------------- Start

\* line 128: stateCheck(NODE_CREATED)
StartCheck ==
    /\ pc[Starter] = "idle"
    /\ IF stateCheck(StartAllowed) = NoErr
       THEN /\ pc' = [pc EXCEPT ![Starter] = "S_lock"]
            /\ ret' = NoResult
       ELSE /\ ret' = Result(Starter, FALSE, stateCheck(StartAllowed))
            /\ UNCHANGED pc
    /\ UNCHANGED <<cfg, state, available, currentNumConnections, connMtx,
                   readers, expireTicker, conn, startI, seen, cmdErr>>
    /\ UNCHANGED hist

\* line 134: n.connMtx.Lock(), released when Start returns
StartLock ==
    /\ pc[Starter] = "S_lock"
    /\ connMtx = Free
    /\ connMtx' = Starter
    /\ startI' = 0
    /\ pc' = [pc EXCEPT ![Starter] = "S_loop"]
    /\ ret' = NoResult
    /\ UNCHANGED <<cfg, state, available, currentNumConnections, readers,
                   expireTicker, conn, seen, cmdErr>>
    /\ UNCHANGED hist

\* lines 151-156, reached when the loop ends or breaks: the err tested at
\* line 151 is the one of stateCheck (the loop's err is a new variable of
\* the if statement), so it is nil; the ticker and the goroutine are started
StartAfterLoop ==
    /\ expireTicker' = "running"
    /\ pc' = [pc EXCEPT ![Starter] = "S_set", ![Expirer] = "X_select"]

\* lines 138-149: one iteration of the loop, up to the connect
StartLoop ==
    /\ pc[Starter] = "S_loop"
    /\ \E ok \in BOOLEAN :
          IF startI < minConnections /\ ok
          THEN /\ pc' = [pc EXCEPT ![Starter] = "create_lock"]
               /\ UNCHANGED expireTicker
          ELSE StartAfterLoop
    /\ ret' = NoResult
    /\ UNCHANGED <<cfg, state, available, currentNumConnections, connMtx,
                   readers, conn, startI, seen, cmdErr>>
    /\ UNCHANGED hist

\* line 158: setState(NODE_RUNNING), then return with the deferred Unlock
StartSetRunning ==
    /\ pc[Starter] = "S_set"
    /\ CanWriteState
    /\ state' = NODE_RUNNING
    /\ connMtx' = Free
    /\ ret' = Result(Starter, FALSE, NoErr)
    /\ pc' = [pc EXCEPT ![Starter] = "idle"]
    /\ UNCHANGED <<cfg, available, currentNumConnections, readers,
                   expireTicker, conn, startI, seen, cmdErr>>
    /\ UNCHANGED hist

\* -------------------------------------------------------------- Execute

\* line 181: stateCheck(NODE_RUNNING, NODE_HEALTH_CHECKING)
ExecCheck(e) ==
    /\ pc[e] = "idle"
    /\ IF stateCheck(ExecuteAllowed) = NoErr
       THEN /\ pc' = [pc EXCEPT ![e] = "E_rlock"]
            /\ seen' = [seen EXCEPT ![e] = state]
            /\ ret' = NoResult
       ELSE /\ ret' = Result(e, FALSE, stateCheck(ExecuteAllowed))
            /\ UNCHANGED <<pc, seen>>
    /\ UNCHANGED <<cfg, state, available, currentNumConnections, connMtx,
                   readers, expireTicker, conn, startI, cmdErr>>
    /\ UNCHANGED hist

\* lines 185-187: take the read lock and test the state again; when it is
\* not RUNNING Execute returns executed = false and the nil err of stateCheck
ExecRLock(e) ==
    /\ pc[e] = "E_rlock"
    /\ IF Dispatchable(state)
       THEN /\ readers' = readers \cup {e}
            /\ pc' = [pc EXCEPT ![e] = "E_get"]
            /\ ret' = NoResult
       ELSE /\ ret' = Result(e, FALSE, NoErr)
            /\ pc' = [pc EXCEPT ![e] = "idle"]
            /\ UNCHANGED readers
    /\ seen' = [seen EXCEPT ![e] = NODE_CREATED]
    /\ UNCHANGED <<cfg, state, available, currentNumConnections, connMtx,
                   expireTicker, conn, startI, cmdErr>>
    /\ UNCHANGED hist

\* line 189 and getAvailableConnection (232-241)
ExecGet(e) ==
    /\ pc[e] = "E_get"
    /\ connMtx = Free
    /\ IF Len(available) > 0
       THEN /\ conn' = [conn EXCEPT ![e] = Head(available)]
            /\ available' = Tail(available)
            /\ pc' = [pc EXCEPT ![e] =
                         IF Head(available) = NilConn THEN "E_lock" ELSE "E_run"]
       ELSE /\ pc' = [pc EXCEPT ![e] = "E_lock"]
            /\ UNCHANGED <<conn, available>>
    /\ ret' = NoResult
    /\ UNCHANGED <<cfg, state, currentNumConnections, connMtx, readers,
                   expireTicker, startI, seen, cmdErr>>
    /\ UNCHANGED hist

\* lines 191-193 and 200-204: lock connMtx and compare the count with the
\* maximum; at the maximum Execute returns, releasing both locks
ExecLock(e) ==
    /\ pc[e] = "E_lock"
    /\ connMtx = Free
    /\ IF BelowMax(currentNumConnections)
       THEN /\ connMtx' = e
            /\ pc' = [pc EXCEPT ![e] = "E_create"]
            /\ ret' = NoResult
            /\ UNCHANGED readers
       ELSE /\ ret' = Result(e, FALSE, NoErr)
            /\ readers' = readers \ {e}
            /\ pc' = [pc EXCEPT ![e] = "idle"]
            /\ UNCHANGED connMtx
    /\ UNCHANGED <<cfg, state, available, currentNumConnections,
                   expireTicker, conn, startI, seen, cmdErr>>
    /\ UNCHANGED hist

\* lines 194-199: the connect of createNewConnection(nil); when it fails
\* Execute starts a health check and returns, releasing both locks
ExecCreate(e) ==
    /\ pc[e] = "E_create"
    /\ \E ok \in BOOLEAN :
          IF ok
          THEN /\ pc' = [pc EXCEPT ![e] = "create_lock"]
               /\ ret' = NoResult
               /\ UNCHANGED <<connMtx, readers>>
          ELSE \E h \in HCs :
               /\ pc[h] = "none"
               /\ pc' = [pc EXCEPT ![e] = "idle", ![h] = "H_set"]
               /\ ret' = Result(e, FALSE, ConnErr)
               /\ connMtx' = Free
               /\ readers' = readers \ {e}
    /\ UNCHANGED <<cfg, state, available, currentNumConnections,
                   expireTicker, conn, startI, seen, cmdErr>>
    /\ UNCHANGED hist

\* line 216: conn.execute(cmd) sets err
ExecRun(e) ==
    /\ pc[e] = "E_run"
    /\ \E ok \in BOOLEAN :
          cmdErr' = [cmdErr EXCEPT ![e] = IF ok THEN NoErr ELSE CmdErr]
    /\ pc' = [pc EXCEPT ![e] = "E_ret"]
    /\ ret' = NoResult
    /\ UNCHANGED <<cfg, state, available, currentNumConnections, connMtx,
                   readers, expireTicker, conn, startI, seen>>
    /\ UNCHANGED hist

\* lines 217-221: executed is set, returnConnectionToPool(conn, true), return
ExecReturn(e) ==
    /\ pc[e] = "E_ret"
    /\ connMtx = Free
    /\ available' = ReturnToPool(conn[e])[1]
    /\ currentNumConnections' = ReturnToPool(conn[e])[2]
    /\ conn' = [conn EXCEPT ![e] = NilConn]
    /\ readers' = readers \ {e}
    /\ ret' = Result(e, cmdErr[e] = NoErr, cmdErr[e])
    /\ cmdErr' = [cmdErr EXCEPT ![e] = NoErr]
    /\ pc' = [pc EXCEPT ![e] = "idle"]
    /\ UNCHANGED <<cfg, state, connMtx, expireTicker, startI, seen>>
    /\ UNCHANGED hist

\* ---------------------------------------------------------- healthCheck

\* line 310: setState(NODE_HEALTH_CHECKING)
HCSet(h) ==
    /\ pc[h] = "H_set"
    /\ CanWriteState
    /\ state' = NODE_HEALTH_CHECKING
    /\ pc' = [pc EXCEPT ![h] = "H_create"]
    /\ ret' = NoResult
    /\ UNCHANGED <<cfg, available, currentNumConnections, connMtx, readers,
                   expireTicker, conn, startI, seen, cmdErr>>
    /\ hcEmpty' = IF NoStop /\ available = <<>> /\ currentNumConnections = 0
                   THEN hcEmpty \cup {h} ELSE hcEmpty \ {h}
    /\ UNCHANGED stopPre

\* line 317: the connect of createNewConnection(healthCheck)
HCCreate(h) ==
    /\ pc[h] = "H_create"
    /\ \E ok \in BOOLEAN :
          pc' = [pc EXCEPT ![h] = IF ok THEN "create_lock" ELSE "H_sleep"]
    /\ ret' = NoResult
    /\ UNCHANGED <<cfg, state, available, currentNumConnections, connMtx,
                   readers, expireTicker, conn, startI, seen, cmdErr>>
    /\ UNCHANGED hist

\* line 320: time.Sleep(thirtySeconds) ends
HCWake(h) ==
    /\ pc[h] = "H_sleep"
    /\ pc' = [pc EXCEPT ![h] = "H_create"]
    /\ ret' = NoResult
    /\ UNCHANGED <<cfg, state, available, currentNumConnections, connMtx,
                   readers, expireTicker, conn, startI, seen, cmdErr>>
    /\ UNCHANGED hist

\* line 322: returnConnectionToPool(conn, true); n.state is read without
\* stateMtx, the value read is the one of the moment connMtx is held
HCReturn(h) ==
    /\ pc[h] = "H_ret"
    /\ connMtx = Free
    /\ available' = ReturnToPool(conn[h])[1]
    /\ currentNumConnections' = ReturnToPool(conn[h])[2]
    /\ conn' = [conn EXCEPT ![h] = NilConn]
    /\ pc' = [pc EXCEPT ![h] = "H_setRun"]
    /\ ret' = NoResult
    /\ UNCHANGED <<cfg, state, connMtx, readers, expireTicker, startI, seen,
                   cmdErr>>
    /\ UNCHANGED hist

\* line 323: setState(NODE_RUNNING); the goroutine ends
HCSetRunning(h) ==
    /\ pc[h] = "H_setRun"
    /\ CanWriteState
    /\ state' = NODE_RUNNING
    /\ pc' = [pc EXCEPT ![h] = "none"]
    /\ ret' = NoResult
    /\ UNCHANGED <<cfg, available, currentNumConnections, connMtx, readers,
                   expireTicker, conn, startI, seen, cmdErr>>
    /\ hcEmpty' = hcEmpty \ {h}
    /\ UNCHANGED stopPre

\* ----------------------------------------------------------------- Stop

\* line 167: stateCheck(NODE_CREATED, NODE_HEALTH_CHECKING)
StopCheck ==
    /\ pc[Stopper] = "idle"
    /\ IF stateCheck(StopAllowed) = NoErr
       THEN /\ pc' = [pc EXCEPT ![Stopper] = "T_send"]
            /\ ret' = NoResult
       ELSE /\ ret' = Result(Stopper, FALSE, stateCheck(StopAllowed))
            /\ UNCHANGED pc
    /\ UNCHANGED <<cfg, state, available, currentNumConnections, connMtx,
                   readers, expireTicker, conn, startI, seen, cmdErr>>
    /\ stopPre' = /\ stateCheck(StopAllowed) = NoErr
                   /\ state = NODE_HEALTH_CHECKING
                   /\ available = <<>>
                   /\ \A p \in Procs : conn[p] = NilConn
    /\ hcEmpty' = IF stateCheck(StopAllowed) = NoErr THEN {} ELSE hcEmpty

\* lines 170-171: n.stop <- true on the unbuffered channel, received by the
\* select of expireIdleConnections (line 353), which returns; then
\* n.expireTicker.Stop()
StopSend ==
    /\ pc[Stopper] = "T_send"
    /\ pc[Expirer] = "X_select"
    /\ expireTicker' = "stopped"
    /\ pc' = [pc EXCEPT ![Stopper] = "T_set", ![Expirer] = "done"]
    /\ ret' = NoResult
    /\ UNCHANGED <<cfg, state, available, currentNumConnections, connMtx,
                   readers, conn, startI, seen, cmdErr>>
    /\ UNCHANGED hist

\* line 172: setState(NODE_SHUTTING_DOWN)
StopSetShuttingDown ==
    /\ pc[Stopper] = "T_set"
    /\ CanWriteState
    /\ state' = NODE_SHUTTING_DOWN
    /\ pc' = [pc EXCEPT ![Stopper] = "T_drain"]
    /\ ret' = NoResult
    /\ UNCHANGED <<cfg, available, currentNumConnections, connMtx, readers,
                   expireTicker, conn, startI, seen, cmdErr>>
    /\ UNCHANGED hist

\* the slice after the loop of lines 264-268: every element set to nil
Drained(av) == [k \in 1..Len(av) |-> NilConn]

\* the err left by the loop of lines 264-268, closeFails being the positions
\* whose close fails: every iteration overwrites err
DrainErr(av, closeFails) ==
    IF Len(av) > 0 /\ Len(av) \in closeFails THEN CloseErr ELSE NoErr

\* shutdown, lines 261-281, up to the setState it calls holding connMtx
StopDrain ==
    /\ pc[Stopper] = "T_drain"
    /\ connMtx = Free
    /\ \E closeFails \in SUBSET (1..Len(available)) :
          LET n == (currentNumConnections + U16 - (Len(available) % U16)) % U16
          IN  /\ currentNumConnections' = n
              /\ IF DrainErr(available, closeFails) # NoErr
                 THEN /\ available' = Drained(available)
                      /\ connMtx' = Stopper
                      /\ pc' = [pc EXCEPT ![Stopper] = "T_err"]
                 ELSE IF n = 0
                 THEN /\ available' = <<>>
                      /\ connMtx' = Stopper
                      /\ pc' = [pc EXCEPT ![Stopper] = "T_down"]
                 ELSE \* line 280: panic, "Connections still in use."
                      /\ available' = Drained(available)
                      /\ UNCHANGED connMtx
                      /\ Crash
    /\ ret' = NoResult
    /\ UNCHANGED <<cfg, state, readers, expireTicker, conn, startI, seen,
                   cmdErr>>
    /\ UNCHANGED hist

\* line 270: setState(NODE_ERROR); shutdown returns the error, Stop
\* (line 174) drops it and returns the nil err of stateCheck
StopSetError ==
    /\ pc[Stopper] = "T_err"
    /\ CanWriteState
    /\ state' = NODE_ERROR
    /\ connMtx' = Free
    /\ ret' = Result(Stopper, FALSE, NoErr)
    /\ pc' = [pc EXCEPT ![Stopper] = "idle"]
    /\ UNCHANGED <<cfg, available, currentNumConnections, readers,
                   expireTicker, conn, startI, seen, cmdErr>>
    /\ stopPre' = FALSE
    /\ UNCHANGED hcEmpty

\* line 276: setState(NODE_SHUTDOWN); shutdown and Stop return
StopSetShutdown ==
    /\ pc[Stopper] = "T_down"
    /\ CanWriteState
    /\ state' = NODE_SHUTDOWN
    /\ connMtx' = Free
    /\ ret' = Result(Stopper, FALSE, NoErr)
    /\ pc' = [pc EXCEPT ![Stopper] = "idle"]
    /\ UNCHANGED <<cfg, available, currentNumConnections, readers,
                   expireTicker, conn, startI, seen, cmdErr>>
    /\ stopPre' = FALSE
    /\ UNCHANGED hcEmpty

\* ------------------------------------------------ expireIdleConnections

\* "Delete without preserving order", lines 373-375
SwapRemove(av, i) ==
    SubSeq([av EXCEPT ![i] = av[Len(av)]], 1, Len(av) - 1)

\* the loop of lines 361-382 from index i (1-based); stale is the set of
\* connections with now.Sub(conn.lastUsed) >= n.idleTimeout.
\* The result is <<available, currentNumConnections>>.
RECURSIVE Sweep_Mut(_, _, _, _)
Sweep_Mut(av, cnt, i, stale) ==
    IF i > Len(av) \/ cnt < minConnections
    THEN <<av, cnt>>
    ELSE IF av[i] \in stale
         THEN Sweep_Mut(SwapRemove(av, i), (cnt + U16 - 1) % U16, i, stale)
         ELSE Sweep_Mut(av, cnt, i + 1, stale)
RECURSIVE Sweep(_, _, _, _)
Sweep(av, cnt, i, stale) ==
    IF i > Len(av) \/ cnt <= minConnections
    THEN <<av, cnt>>
    ELSE IF av[i] \in stale
         THEN Sweep(SwapRemove(av, i), (cnt + U16 - 1) % U16, i, stale)
         ELSE Sweep(av, cnt, i + 1, stale)

\* line 356: a tick of expireTicker is received
ExpireTick ==
    /\ pc[Expirer] = "X_select"
    /\ expireTicker = "running"
    /\ pc' = [pc EXCEPT ![Expirer] = "X_lock"]
    /\ ret' = NoResult
    /\ UNCHANGED <<cfg, state, available, currentNumConnections, connMtx,
                   readers, expireTicker, conn, startI, seen, cmdErr>>
    /\ UNCHANGED hist

\* lines 358-383: the sweep, under connMtx
ExpireSweep ==
    /\ pc[Expirer] = "X_lock"
    /\ connMtx = Free
    /\ \E stale \in SUBSET {available[k] : k \in 1..Len(available)} :
          /\ available' = Sweep(available, currentNumConnections, 1, stale)[1]
          /\ currentNumConnections' =
                 Sweep(available, currentNumConnections, 1, stale)[2]
    /\ pc' = [pc EXCEPT ![Expirer] = "X_select"]
    /\ ret' = NoResult
    /\ UNCHANGED <<cfg, state, connMtx, readers, expireTicker, conn, startI,
                   seen, cmdErr>>
    /\ UNCHANGED hist

\* ------------------------------------------------------------ behaviours

Next ==
    \/ StartCheck
    \/ StartLock
    \/ StartLoop
    \/ StartSetRunning
    \/ StopCheck
    \/ StopSend
    \/ StopSetShuttingDown
    \/ StopDrain
    \/ StopSetError
    \/ StopSetShutdown
    \/ ExpireTick
    \/ ExpireSweep
    \/ \E p \in Procs : CreateLock(p)
    \/ \E e \in Execs : ExecCheck(e)
    \/ \E e \in Execs : ExecRLock(e)
    \/ \E e \in Execs : ExecGet(e)
    \/ \E e \in Execs : ExecLock(e)
    \/ \E e \in Execs : ExecCreate(e)
    \/ \E e \in Execs : ExecRun(e)
    \/ \E e \in Execs : ExecReturn(e)
    \/ \E h \in HCs : HCSet(h)
    \/ \E h \in HCs : HCCreate(h)
    \/ \E h \in HCs : HCWake(h)
    \/ \E h \in HCs : HCReturn(h)
    \/ \E h \in HCs : HCSetRunning(h)

Spec == Init /\ [][Next]_vars

TypeOK ==
    /\ state \in 0..5
    /\ currentNumConnections \in 0..(U16 - 1)
    /\ connMtx \in Procs \cup {Free}
    /\ readers \subseteq Execs

\* what the scheduler guarantees: a goroutine that can take a step takes it,
\* and a goroutine waiting for a lock that is released again and again gets
\* it (sync.Mutex hands the lock to a starving waiter, a waiting writer of a
\* sync.RWMutex holds back new readers).  Calls of Start, Stop and Execute
\* and ticks are up to the environment.  A goroutine is at one place at a
\* time, so fairness of its step is fairness of each of its actions.
StartStep ==
    StartLock \/ StartLoop \/ StartSetRunning \/ CreateLock(Starter)

StopStep ==
    \/ StopSend
    \/ StopSetShuttingDown
    \/ StopDrain
    \/ StopSetError
    \/ StopSetShutdown

ExecStep(e) ==
    \/ ExecRLock(e)
    \/ ExecGet(e)
    \/ ExecLock(e)
    \/ ExecCreate(e)
    \/ ExecRun(e)
    \/ ExecReturn(e)
    \/ CreateLock(e)

HCStep(h) ==
    \/ HCSet(h)
    \/ HCCreate(h)
    \/ HCWake(h)
    \/ HCReturn(h)
    \/ HCSetRunning(h)
    \/ CreateLock(h)

Fairness ==
    /\ SF_vars(StartStep)
    /\ SF_vars(StopStep)
    /\ SF_vars(ExpireSweep)
    /\ \A e \in Execs : SF_vars(ExecStep(e))
    /\ \A h \in HCs : SF_vars(HCStep(h))

FairSpec == Spec /\ Fairness

\* ----------------------------------------------------------------- claims

\* the program has not been ended by a panic or a fatal error
Running == \A p \in Procs : pc[p] # "crashed"

\* connections held outside the idle queue: checked out by a dispatch or
\* created and not yet returned
Held == {p \in Procs : conn[p] # NilConn}

\* C1: in every reachable state (taken when no goroutine is inside a
\* critical section of connMtx) the live count equals the length of the
\* idle queue plus the number of connections held outside the queue.
C1_LiveCountIsIdlePlusHeld ==
    (Running /\ connMtx = Free)
        => currentNumConnections = Len(available) + Cardinality(Held)

\* a creation attempt is in progress
Creating == \E p \in Procs : pc[p] \in {"S_loop", "E_create", "H_create", "create_lock"}

\* C2: the live count never exceeds MaxConnections, apart from the one
\* connection of a creation attempt in progress.
C2_LiveCountAtMostMax ==
    Running => currentNumConnections <=
                   maxConnections + (IF Creating THEN 1 ELSE 0)

\* C3: a Start whose connection attempts all succeed returns without error
\* with MinConnections idle connections, the expiration activity started
\* and the state RUNNING.
C3_StartSucceeds ==
    (pc[Starter] = "create_lock" /\ startI + 1 = minConnections)
        ~> (/\ ret = Result(Starter, FALSE, NoErr)
            /\ state = NODE_RUNNING
            /\ Len(available) = minConnections
            /\ pc[Expirer] # "none")

\* C4: when a connection attempt of Start fails, Start returns the creation
\* error, the state stays CREATED, no expiration activity is started and the
\* idle queue keeps the connections created before.
C4_StartFailureReturnsError ==
    [][(/\ pc[Starter] = "S_loop"
        /\ startI < minConnections
        /\ pc'[Starter] \notin {"S_loop", "create_lock", "crashed"})
       => (/\ ret' = Result(Starter, FALSE, ConnErr)
           /\ pc'[Starter] = "idle"
           /\ state' = NODE_CREATED
           /\ pc'[Expirer] = "none"
           /\ available' = available)]_vars

\* C5: an Execute that finds the idle queue empty and the live count below
\* the maximum, and whose connection attempt succeeds, runs the command on
\* the new connection and returns to its caller.
C5_ExecuteOnNewConnectionReturns ==
    \A e \in Execs : (pc[e] = "create_lock") ~> (ret.proc = e)

\* C6: an Execute in state RUNNING that finds the idle queue empty and the
\* live count equal to the maximum returns executed=false with a nil error,
\* creates no connection, starts no health check and leaves the idle queue,
\* the live count and the state unchanged.
C6_AtMaxRejected ==
    [][\A e \in Execs :
         (/\ pc[e] = "E_lock"
          /\ pc'[e] \notin {"E_lock", "crashed"}
          /\ state = NODE_RUNNING
          /\ available = <<>>
          /\ currentNumConnections = maxConnections)
         => (/\ ret' = Result(e, FALSE, NoErr)
             /\ pc'[e] = "idle"
             /\ \A p \in Procs \ {e} : pc'[p] = pc[p]
             /\ UNCHANGED <<available, currentNumConnections, state, conn>>)]_vars

\* C6: an Execute has just been rejected at the maximum with an empty queue
C6_Witness ==
    /\ ret.proc \in Execs
    /\ ret.executed = FALSE
    /\ ret.err = NoErr
    /\ state = NODE_RUNNING
    /\ available = <<>>
    /\ currentNumConnections = maxConnections

\* C7 as stated: an Execute whose stateCheck saw HEALTH_CHECKING returns
\* executed=false with a nil error and runs no command.
C7_SeenHealthCheckingIsNoOp ==
    [][\A e \in Execs :
         (/\ pc[e] = "E_rlock"
          /\ seen[e] = NODE_HEALTH_CHECKING
          /\ pc'[e] \notin {"E_rlock", "crashed"})
         => (/\ ret' = Result(e, FALSE, NoErr)
             /\ pc'[e] = "idle")]_vars

\* C7 amended: an Execute that passed stateCheck and finds the state
\* HEALTH_CHECKING at its check under the read lock returns executed=false
\* with a nil error and neither acquires, creates nor releases a connection.
C7_HealthCheckingIsNoOp ==
    [][\A e \in Execs :
         (/\ pc[e] = "E_rlock"
          /\ state = NODE_HEALTH_CHECKING
          /\ pc'[e] \notin {"E_rlock", "crashed"})
         => (/\ ret' = Result(e, FALSE, NoErr)
             /\ pc'[e] = "idle"
             /\ UNCHANGED <<available, currentNumConnections, conn, connMtx,
                            readers, state>>)]_vars

\* C7: an Execute has just returned from its check under the read lock
\* while the state is HEALTH_CHECKING
C7_Witness ==
    /\ ret.proc \in Execs
    /\ ret = Result(ret.proc, FALSE, NoErr)
    /\ state = NODE_HEALTH_CHECKING

\* C8: when the command fails, Execute returns executed=false with the
\* command error, the connection is appended to the idle queue and the live
\* count is unchanged.
C8_FailedCommandKeepsConnection ==
    [][\A e \in Execs :
         (/\ pc[e] = "E_ret"
          /\ cmdErr[e] = CmdErr
          /\ pc'[e] \notin {"E_ret", "crashed"})
         => (/\ ret' = Result(e, FALSE, CmdErr)
             /\ available' = Append(available, conn[e])
             /\ conn[e] # NilConn
             /\ currentNumConnections' = currentNumConnections)]_vars

\* C8: an Execute has just returned a command error and the queue is not empty
C8_Witness ==
    /\ ret.proc \in Execs
    /\ ret.err = CmdErr
    /\ Len(available) > 0
    /\ available[Len(available)] # NilConn

\* C9: after an Execute has returned the creation error of a failed
\* connection attempt, the state becomes HEALTH_CHECKING.
C9_FailedCreateLeadsToHealthChecking ==
    (ret.err = ConnErr) ~> (state = NODE_HEALTH_CHECKING)

\* what C10 says of caller p, allowed being the allow-list of its operation
Rejects(p, allowed) ==
    (pc[p] = "idle" /\ state \notin allowed)
    => (/\ pc'[p] \in {"idle", "crashed"}
        /\ ret'.proc = p
           => (/\ ret'.err = IllegalState
               /\ UNCHANGED <<state, available, currentNumConnections>>))

\* C10: an operation invoked outside its allow-list returns an illegal-state
\* error and changes neither the state, the idle queue nor the live count;
\* Stop invoked in RUNNING is rejected.
C10_IllegalStateRejected ==
    [][/\ Rejects(Starter, {NODE_CREATED})
       /\ Rejects(Stopper, {NODE_CREATED, NODE_HEALTH_CHECKING})
       /\ \A e \in Execs : Rejects(e, {NODE_RUNNING, NODE_HEALTH_CHECKING})]_vars

\* C10: a Stop has just been rejected in state RUNNING
C10_Witness ==
    /\ ret = Result(Stopper, FALSE, IllegalState)
    /\ state = NODE_RUNNING

\* C11: a Stop called in HEALTH_CHECKING with no idle connection and no
\* connection held outside the pool ends by returning, with the state
\* SHUTDOWN and the live count zero.
C11_StopInHealthCheckingShutsDown ==
    [][(/\ stopPre
        /\ pc[Stopper] \notin {"idle", "crashed"}
        /\ pc'[Stopper] \in {"idle", "crashed"})
       => (/\ pc'[Stopper] = "idle"
           /\ state' = NODE_SHUTDOWN
           /\ currentNumConnections' = 0)]_vars

\* C12: a Stop called while the state is CREATED and the node was never
\* started moves the state on and returns to its caller.
C12_StopInCreatedReturns ==
    (/\ pc[Stopper] = "T_send"
     /\ state = NODE_CREATED
     /\ pc[Starter] = "idle"
     /\ pc[Expirer] = "none")
        ~> (ret.proc = Stopper)

\* C13: when the drain of Stop ends with a failed close, the state becomes
\* ERROR and Stop returns the close error.
C13_CloseErrorReturned ==
    [][(pc[Stopper] = "T_err" /\ pc'[Stopper] = "idle")
       => (/\ state' = NODE_ERROR
           /\ ret' = Result(Stopper, FALSE, CloseErr))]_vars

\* C14: a healthCheck begun with no connection at all retries with the state
\* HEALTH_CHECKING, and when its connect has succeeded it ends with the state
\* RUNNING and exactly one connection in the idle queue (no Stop interfering).
C14_HealthCheckEndsRunningWithOne ==
    [][\A h \in hcEmpty :
          NoStop
          => (/\ pc[h] \in {"H_create", "H_sleep"}
                 => state = NODE_HEALTH_CHECKING
              /\ (pc[h] = "H_setRun" /\ pc'[h] = "none")
                 => (state' = NODE_RUNNING /\ Len(available') = 1))]_vars

\* the connections in the idle queue
Idle(av) == {av[k] : k \in 1..Len(av)} \ {NilConn}

\* the place of connection c in the queue av
Pos(av, c) == CHOOSE k \in 1..Len(av) : av[k] = c

\* the connections that stay in the queue keep their order
OrderKept ==
    \A a, b \in Idle(available) \cap Idle(available') :
        Pos(available, a) < Pos(available, b)
            => Pos(available', a) < Pos(available', b)

\* a connection leaves the queue only from the front, to the Execute that
\* acquires it
AcquireFront ==
    Len(available') < Len(available)
        => /\ available' = Tail(available)
           /\ \E e \in Execs : /\ pc[e] = "E_get"
                               /\ conn'[e] = Head(available)

\* a connection enters the queue only at the back
ReleaseBack ==
    Len(available') > Len(available)
        => \E c \in Idle(available') : available' = Append(available, c)

Swept(stale) ==
    Idle(available) \ Idle(Sweep(available, currentNumConnections, 1, stale)[1])

\* C16: a sweep closes only idle connections that are stale, counts each of
\* them, and if it starts with the live count at or above MinConnections it
\* ends with the live count at or above MinConnections.
C16_SweepKeepsMinimum ==
    pc[Expirer] = "X_lock"
    => \A stale \in SUBSET Idle(available) :
          LET r == Sweep(available, currentNumConnections, 1, stale)
          IN  /\ Swept(stale) \subseteq stale
              /\ r[2] = currentNumConnections - Cardinality(Swept(stale))
              /\ Idle(r[1]) \subseteq Idle(available)
              /\ currentNumConnections >= minConnections
                     => r[2] >= minConnections

\* C16: a sweep is about to run on a queue in which every connection is
\* stale, with the live count above the minimum
C16_Witness ==
    /\ pc[Expirer] = "X_lock"
    /\ connMtx = Free
    /\ Len(available) >= 2
    /\ currentNumConnections > minConnections
    /\ Sweep(available, currentNumConnections, 1, Idle(available))[2]
           = minConnections

\* C17: once the state is SHUTDOWN or ERROR no step changes it.
C17_TerminalStates ==
    [][(state \in {NODE_SHUTDOWN, NODE_ERROR}) => (state' = state)]_vars

\* C18: while an Execute holds a checked-out connection (the command runs
\* or the connection is on its way back), the state is RUNNING.
C18_RunningWhileDispatching ==
    \A e \in Execs : (pc[e] \in {"E_get", "E_run", "E_ret"} \/ conn[e] # NilConn)
                         => state = NODE_RUNNING

\* C18: a command runs while a health check waits to set HEALTH_CHECKING
C18_Witness ==
    /\ \E e \in Execs : pc[e] = "E_run" /\ conn[e] # NilConn
    /\ \E h \in HCs : pc[h] = "H_set"
    /\ state = NODE_RUNNING

\* C19: the drain of Stop never finds connections outstanding: the panic
\* of line 280 is not reached.
C19_DrainNeverPanics ==
    pc[Stopper] # "crashed"

\* C20: at most one health-check activity exists, and while one retries the
\* state is not RUNNING.
C20_OneHealthCheck ==
    /\ Cardinality({h \in HCs : pc[h] # "none"}) <= 1
    /\ \A h \in HCs : pc[h] \in {"H_create", "H_sleep", "create_lock"}
                          => state # NODE_RUNNING

====
